---------------------------- MODULE Spec2Model ----------------------------
(***************************************************************************)
(* Gate-definition classes of quantum_amplitude_estimation_demo/lib.py:    *)
(* get_num_qubits, CustomMCXGate, BooleanOracleGate, QFTGate,              *)
(* GroverDiffusionGate and QPEGate.                                        *)
(*                                                                         *)
(* A gate object is a record [name, num_qubits, params]; a decomposition   *)
(* ("definition") is a sequence                                            *)
(* of instructions [name, num_qubits, qubits, params], the model of the    *)
(* (gate, qargs, cargs) triples the code appends: the gate's fields and    *)
(* the qubits it is applied to (cargs is always empty).  Qubit indices are *)
(* 0-based as in the code.                                                 *)
(***************************************************************************)
EXTENDS Integers, Sequences, FiniteSets, TLC

\* pc         : where the caller is: "idle", "returned" (get_num_qubits was
\*              called), "constructed", "failed" (an exception was raised),
\*              "defined" (_define has run), "ran" (the definition was applied)
\* args       : the arguments of the call made
\* gate       : the gate object constructed
\* definition : gate.definition, the list _define builds
\* error      : the exception raised, "none" if none
\* input      : the state the definition was applied to
\* output     : the value returned by get_num_qubits, or the state the
\*              definition produced
VARIABLES pc, args, gate, definition, error, input, output

vars == <<pc, args, gate, definition, error, input, output>>

(***************************************************************************)
(* Bounds of the model.                                                    *)
(***************************************************************************)
\* largest number of control qubits of a CustomMCXGate / BooleanOracleGate
MaxCtrl == 2
\* largest exponent k of a "small" vector length 2^k handed to get_num_qubits
MaxExp == 6
\* largest number of qubits of a QFTGate
MaxQFT == 5
\* largest num_qubits of a GroverDiffusionGate (the auxiliary qubit not counted)
MaxGrover == 2
\* largest number of phase qubits of a QPEGate
MaxPhase == 4
\* largest number of qubits of the unitary handed to QPEGate
MaxUnitary == 2

(***************************************************************************)
(* Natural numbers of any size, as little-endian bit sequences without     *)
(* leading zeros (<<>> is 0).  len() of a sequence is a Python int, which  *)
(* is unbounded; the double it is converted to is not.                     *)
(***************************************************************************)
RECURSIVE NatToBits(_)
NatToBits(n) == IF n = 0 THEN <<>> ELSE <<n % 2>> \o NatToBits(n \div 2)

RECURSIVE Pow2(_)
Pow2(k) == IF k = 0 THEN 1 ELSE 2 * Pow2(k - 1)

\* the bits of 2^k
Pow2Bits(k) == [i \in 1..(k + 1) |-> IF i = k + 1 THEN 1 ELSE 0]

IsPow2Bits(b) == Len(b) >= 1 /\ \A i \in 1..(Len(b) - 1) : b[i] = 0

RECURSIVE Inc(_)
Inc(b) == IF b = <<>> THEN <<1>>
          ELSE IF Head(b) = 0 THEN <<1>> \o Tail(b)
          ELSE <<0>> \o Inc(Tail(b))

\* b - 1, for b > 0
RECURSIVE Dec(_)
Dec(b) == IF Head(b) = 1
          THEN (IF Tail(b) = <<>> THEN <<>> ELSE <<0>> \o Tail(b))
          ELSE <<1>> \o Dec(Tail(b))

(***************************************************************************)
(* IEEE-754 binary64: 53 significant bits, round to nearest, ties to even. *)
(***************************************************************************)
MantissaBits == 53

RoundToDouble(b) ==
    IF Len(b) <= MantissaBits THEN b
    ELSE LET drop   == Len(b) - MantissaBits
             kept   == SubSeq(b, drop + 1, Len(b))
             guard  == b[drop]
             sticky == \E i \in 1..(drop - 1) : b[i] = 1
             up     == guard = 1 /\ (sticky \/ kept[1] = 1)
         IN  [i \in 1..drop |-> 0] \o (IF up THEN Inc(kept) ELSE kept)

(***************************************************************************)
(* get_num_qubits(N) == int(np.log2(N - 0.5) + 1.0), N given by its bits.  *)
(*   N - 0.5   : N is converted to a double, then the difference is        *)
(*               rounded to a double; h below is twice that double.        *)
(*   np.log2   : of x = h/2.  floor(log2 x) = Len(h) - 2; the value is     *)
(*               that integer exactly when x is a power of two, and lies   *)
(*               strictly between it and the next integer otherwise.       *)
(*   + 1.0, int: truncation gives floor(log2 x) + 1 in both cases.         *)
(*   N = 0     : log2(-0.5) is nan and int(nan) raises ValueError          *)
(*               ("cannot convert float NaN to integer"): result "nan".    *)
(* The result is a record [raised, value].                                 *)
(***************************************************************************)
get_num_qubits(N) ==
    IF N = <<>> THEN [raised |-> TRUE, value |-> 0]
    ELSE LET f == RoundToDouble(N)
             h == RoundToDouble(Dec(<<0>> \o f))
         IN  [raised |-> FALSE, value |-> Len(h) - 1]

(***************************************************************************)
(* Gate objects and instructions.                                          *)
(***************************************************************************)
Gate(name, num_qubits, params) ==
    [name |-> name, num_qubits |-> num_qubits, params |-> params]

\* one (gate, qargs, []) triple of a definition list
Instr(g, qubits) ==
    [name |-> g.name, num_qubits |-> g.num_qubits, qubits |-> qubits,
     params |-> g.params]

NoParams == [none |-> TRUE]

\* QuantumRegister(n) as the list qr[0], ..., qr[n-1]
QuantumRegister(n) == [i \in 1..n |-> i - 1]

\* qubit_values of a CustomMCXGate: None, or a list of 0/1
NoneValues == [none |-> TRUE, vals |-> <<>>]
Values(v) == [none |-> FALSE, vals |-> v]
\* Python truthiness of qubit_values: None and [] are false
Truthy(qv) == ~qv.none /\ qv.vals # <<>>

BitVectors(n) == [1..n -> {0, 1}]

\* the standard gates of the host library used by the definitions
XGate == Gate("x", 1, NoParams)
HGate == Gate("h", 1, NoParams)
ZGate == Gate("z", 1, NoParams)
SwapGate == Gate("swap", 2, NoParams)
MCXGate(num_ctrl_qubits) ==
    Gate("mcx", num_ctrl_qubits + 1, [num_ctrl_qubits |-> num_ctrl_qubits])
\* CU1Gate(theta) with theta = sign * pi / 2^exp
CU1Gate(sign, exp) == Gate("cu1", 2, [sign |-> sign, exp |-> exp])

(***************************************************************************)
(* CustomMCXGate                                                           *)
(***************************************************************************)
CustomMCXGate(num_ctrl_qubits, qubit_values) ==
    Gate("CustomMCX", num_ctrl_qubits + 1,
         [num_ctrl_qubits |-> num_ctrl_qubits, qubit_values |-> qubit_values])

\* the X gates appended by one of the two enumerate loops of _define
XFlips(ctrl_qr, qubit_values) ==
    IF Truthy(qubit_values)
    THEN LET F[n \in 0..Len(qubit_values.vals)] ==
                 IF n = 0 THEN <<>>
                 ELSE IF qubit_values.vals[n] = 0
                      THEN Append(F[n - 1], Instr(XGate, <<ctrl_qr[n]>>))
                      ELSE F[n - 1]
         IN  F[Len(qubit_values.vals)]
    ELSE <<>>

\* CustomMCX_define without the second loop: the flipped controls stay flipped
CustomMCX_define_no_restore(g) ==
    LET k            == g.params.num_ctrl_qubits
        qr           == QuantumRegister(k + 1)
        ctrl_qr      == SubSeq(qr, 1, k)
        target_qubit == qr[k + 1]
    IN  XFlips(ctrl_qr, g.params.qubit_values)
        \o <<Instr(MCXGate(k), ctrl_qr \o <<target_qubit>>)>>

CustomMCX_define(g) ==
    LET k            == g.params.num_ctrl_qubits
        qr           == QuantumRegister(k + 1)
        ctrl_qr      == SubSeq(qr, 1, k)
        target_qubit == qr[k + 1]
    IN  XFlips(ctrl_qr, g.params.qubit_values)
        \o <<Instr(MCXGate(k), ctrl_qr \o <<target_qubit>>)>>
        \o XFlips(ctrl_qr, g.params.qubit_values)

(***************************************************************************)
(* BooleanOracleGate                                                       *)
(***************************************************************************)
\* __init__: the error raised for a vector of the given length (in bits),
\* or "none"
BooleanOracle_error(len) ==
    LET r == get_num_qubits(len)
    IN  IF r.raised THEN "nan_to_int"
        ELSE IF len # Pow2Bits(r.value) THEN "size_mismatch"
        ELSE "none"

\* __init__ when it does not raise
BooleanOracleGate(boolean_vector) ==
    LET k == get_num_qubits(NatToBits(Len(boolean_vector))).value
    IN  Gate("BooleanOracleGate", k + 1,
             [num_ctrl_qubits |-> k, boolean_vector |-> boolean_vector])

\* [int(bit) for bit in f"{idx:0{k}b}"[::-1]]: the binary digits of idx,
\* zero-padded to at least k digits, least significant first
RECURSIVE Binary(_)
Binary(idx) == IF idx < 2 THEN <<idx>> ELSE <<idx % 2>> \o Binary(idx \div 2)

\* ReversedPaddedBinary without the [::-1]: most significant digit first
PaddedBinary_msb_first(idx, k) ==
    LET d == Binary(idx)
        r == d \o [i \in 1..(k - Len(d)) |-> 0]
    IN  [i \in 1..Len(r) |-> r[Len(r) + 1 - i]]

ReversedPaddedBinary(idx, k) ==
    LET d == Binary(idx)
    IN  d \o [i \in 1..(k - Len(d)) |-> 0]

OracleQubitValues(idx, k) ==
    IF k # 0 THEN ReversedPaddedBinary(idx, k) ELSE <<>>

BooleanOracle_define(g) ==
    LET k  == g.params.num_ctrl_qubits
        bv == g.params.boolean_vector
        qr == QuantumRegister(k + 1)
        \* enumerate is 0-based: idx = n - 1
        F[n \in 0..Len(bv)] ==
            IF n = 0 THEN <<>>
            ELSE IF bv[n] # 0
                 THEN Append(F[n - 1],
                        Instr(CustomMCXGate(k, Values(OracleQubitValues(n - 1, k))), qr))
                 ELSE F[n - 1]
    IN  F[Len(bv)]

(***************************************************************************)
(* QFTGate                                                                 *)
(***************************************************************************)
QFTGate(num_qubits, do_swaps) ==
    Gate("QFTGate", num_qubits, [do_swaps |-> do_swaps])

\* for j in range(i): CU1Gate(pi / 2.0**(i - j)) on [qr[j], qr[i]]
QFT_rotations(qr, i) ==
    [n \in 1..i |-> Instr(CU1Gate(1, i - (n - 1)), <<qr[n], qr[i + 1]>>)]

\* for i in range(num_qubits // 2): SwapGate on [qr[i], qr[num_qubits-1-i]]
QFT_swaps(qr, num_qubits) ==
    [n \in 1..(num_qubits \div 2) |->
        Instr(SwapGate, <<qr[n], qr[num_qubits - (n - 1)]>>)]

\* QFT_define with range(n) in place of reversed(range(n))
QFT_define_ascending(g) ==
    LET n  == g.num_qubits
        qr == QuantumRegister(n)
        F[m \in 0..n] ==
            IF m = 0 THEN <<>>
            ELSE LET i == m - 1
                 IN  F[m - 1] \o <<Instr(HGate, <<qr[i + 1]>>)>> \o QFT_rotations(qr, i)
    IN  F[n] \o (IF g.params.do_swaps THEN QFT_swaps(qr, n) ELSE <<>>)

QFT_define(g) ==
    LET n  == g.num_qubits
        qr == QuantumRegister(n)
        \* F[m]: the list after the first m rounds of the outer loop,
        \* which takes i = n-1, n-2, ..., 0
        F[m \in 0..n] ==
            IF m = 0 THEN <<>>
            ELSE LET i == n - m
                 IN  F[m - 1] \o <<Instr(HGate, <<qr[i + 1]>>)>> \o QFT_rotations(qr, i)
    IN  F[n] \o (IF g.params.do_swaps THEN QFT_swaps(qr, n) ELSE <<>>)

(***************************************************************************)
(* gate.inverse() of the host library: a copy of the gate named            *)
(* <name>_dg whose definition is the gate's definition reversed, every     *)
(* instruction replaced by its inverse.  H, X, Z and swap are their own    *)
(* inverses; the inverse of CU1(theta) is CU1(-theta).                     *)
(***************************************************************************)
Inverse(g) ==
    CASE g.name \in {"h", "x", "z", "swap", "mcx"} -> g
      [] g.name = "cu1" -> [g EXCEPT !.params.sign = -@]
      [] OTHER -> [g EXCEPT !.name = @ \o "_dg"]

InverseDefinition(defn) ==
    [n \in 1..Len(defn) |-> Inverse(defn[Len(defn) + 1 - n])]

(***************************************************************************)
(* GroverDiffusionGate                                                     *)
(***************************************************************************)
GroverDiffusionGate(num_qubits, algorithm, boolean_oracle, oracle_qubits) ==
    Gate("GroverDiffusionGate", num_qubits + 1,
         [quantum_algorithm        |-> algorithm,
          classical_boolean_oracle |-> boolean_oracle,
          oracle_qubits            |-> oracle_qubits,
          minus_identity           |-> FALSE])

\* InversionVector with 2 ** self.num_qubits: the auxiliary qubit counted in
InversionVector_with_aux(g) ==
    <<1>> \o [n \in 1..(Pow2(g.num_qubits) - 1) |-> 0]

\* [1] + [0] * (2 ** (self.num_qubits - 1) - 1)
InversionVector(g) ==
    <<1>> \o [n \in 1..(Pow2(g.num_qubits - 1) - 1) |-> 0]

\* the error _define raises: that of the first BooleanOracleGate whose
\* construction fails, "none" if both are constructed
Grover_error(g) ==
    LET e == BooleanOracle_error(NatToBits(Len(g.params.classical_boolean_oracle)))
    IN  IF e # "none" THEN e
        ELSE BooleanOracle_error(NatToBits(Len(InversionVector(g))))

\* Grover_define with the algorithm and its inverse exchanged
Grover_define_exchanged(g) ==
    LET qr        == QuantumRegister(g.num_qubits)
        last      == qr[Len(qr)]
        allButAux == SubSeq(qr, 1, Len(qr) - 1)
        oracle_qr == [n \in 1..Len(g.params.oracle_qubits) |->
                         qr[g.params.oracle_qubits[n] + 1]]
    IN  << Instr(HGate, <<last>>),
           Instr(ZGate, <<last>>),
           Instr(BooleanOracleGate(g.params.classical_boolean_oracle),
                 oracle_qr \o <<last>>),
           Instr(g.params.quantum_algorithm, allButAux),
           Instr(BooleanOracleGate(InversionVector(g)), qr),
           Instr(Inverse(g.params.quantum_algorithm), allButAux),
           Instr(ZGate, <<last>>),
           Instr(HGate, <<last>>) >>

Grover_define(g) ==
    LET qr        == QuantumRegister(g.num_qubits)
        last      == qr[Len(qr)]
        allButAux == SubSeq(qr, 1, Len(qr) - 1)
        oracle_qr == [n \in 1..Len(g.params.oracle_qubits) |->
                         qr[g.params.oracle_qubits[n] + 1]]
    IN  << Instr(HGate, <<last>>),
           Instr(ZGate, <<last>>),
           Instr(BooleanOracleGate(g.params.classical_boolean_oracle),
                 oracle_qr \o <<last>>),
           Instr(Inverse(g.params.quantum_algorithm), allButAux),
           Instr(BooleanOracleGate(InversionVector(g)), qr),
           Instr(g.params.quantum_algorithm, allButAux),
           Instr(ZGate, <<last>>),
           Instr(HGate, <<last>>) >>

(***************************************************************************)
(* QPEGate                                                                 *)
(***************************************************************************)
QPEGate(num_phase_qubits, unitary_gate) ==
    Gate("QPE", num_phase_qubits + unitary_gate.num_qubits,
         [num_phase_qubits |-> num_phase_qubits, unitary_gate |-> unitary_gate])

\* unitary_gate.control(num_ctrl_qubits=1) of the host library
Control(g) == Gate("c" \o g.name, g.num_qubits + 1, g.params)

\* QPE_powers with range(i + 1) in place of range(2**i)
QPE_powers_linear(g, qr, i) ==
    LET p == g.params.num_phase_qubits
    IN  [n \in 1..(i + 1) |->
            Instr(Control(g.params.unitary_gate),
                  <<qr[i + 1]>> \o SubSeq(qr, p + 1, Len(qr)))]

\* for _ in range(2**i): the controlled unitary on [qr[i]] + qr[p:]
QPE_powers(g, qr, i) ==
    LET p == g.params.num_phase_qubits
    IN  [n \in 1..Pow2(i) |->
            Instr(Control(g.params.unitary_gate),
                  <<qr[i + 1]>> \o SubSeq(qr, p + 1, Len(qr)))]

\* QPE_define with the inverse QFT over the whole register
QPE_define_qft_on_all(g) ==
    LET p  == g.params.num_phase_qubits
        qr == QuantumRegister(g.num_qubits)
        F[m \in 0..p] ==
            IF m = 0 THEN <<>>
            ELSE F[m - 1] \o <<Instr(HGate, <<qr[m]>>)>> \o QPE_powers(g, qr, m - 1)
    IN  F[p] \o <<Instr(Inverse(QFTGate(g.num_qubits, TRUE)), qr)>>

QPE_define(g) ==
    LET p  == g.params.num_phase_qubits
        qr == QuantumRegister(g.num_qubits)
        \* F[m]: the list after the rounds i = 0, ..., m-1 of the loop
        F[m \in 0..p] ==
            IF m = 0 THEN <<>>
            ELSE F[m - 1] \o <<Instr(HGate, <<qr[m]>>)>> \o QPE_powers(g, qr, m - 1)
    IN  F[p] \o <<Instr(Inverse(QFTGate(p, TRUE)), SubSeq(qr, 1, p))>>

(***************************************************************************)
(* Action of the standard gates on computational-basis states.  A basis    *)
(* state is the sequence of the qubits' bits, qubit q at position q + 1.   *)
(* A custom gate acts as its definition does, on the qubits it is given.   *)
(* X flips its qubit; MCX flips its last qubit iff all the others are 1    *)
(* (with no control qubit at all it is an X on the target).                *)
(***************************************************************************)
Flip(s, q) == [s EXCEPT ![q + 1] = 1 - @]

\* the definition of a custom gate, mapped onto the instruction's qubits
Remap(defn, qubits) ==
    [n \in 1..Len(defn) |->
        [defn[n] EXCEPT !.qubits = [m \in 1..Len(@) |-> qubits[@[m] + 1]]]]

RECURSIVE RunBasis(_, _)
RunBasis(defn, s) ==
    IF defn = <<>> THEN s
    ELSE LET ins == Head(defn)
             nq  == Len(ins.qubits)
             t   == CASE ins.name = "x" -> Flip(s, ins.qubits[1])
                      [] ins.name = "mcx" ->
                           IF \A c \in 1..(nq - 1) : s[ins.qubits[c] + 1] = 1
                           THEN Flip(s, ins.qubits[nq]) ELSE s
                      [] ins.name = "CustomMCX" ->
                           RunBasis(Remap(CustomMCX_define(ins), ins.qubits), s)
                      [] ins.name = "BooleanOracleGate" ->
                           RunBasis(Remap(BooleanOracle_define(ins), ins.qubits), s)
         IN  RunBasis(Tail(defn), t)

(***************************************************************************)
(* Action of the gates of a QPE definition on the phase register, when the *)
(* state register holds an eigenstate of the unitary with eigenphase       *)
(* theta = m / 2^p.  Phases are counted in units of 2 pi / 2^(p+1).  Each  *)
(* phase qubit is either in a basis state (basis, v = the bit) or in       *)
(* (|0> + e^(i v) |1>) / sqrt 2 (~basis, v = the phase in units); the      *)
(* register is the product of its qubits' states, up to a global phase.    *)
(* ok = FALSE: a gate has taken the register out of this family (two       *)
(* qubits entangled, or a qubit whose measurement is not certain).         *)
(***************************************************************************)
PhaseUnits(p) == Pow2(p + 1)

Basis(b) == [basis |-> TRUE, v |-> b]
Phase(a) == [basis |-> FALSE, v |-> a]

NotOk(st) == [st EXCEPT !.ok = FALSE]

\* Hadamard: |0> -> phase 0, |1> -> phase pi, and back
ApplyH(st, q, p) ==
    LET x == st.q[q + 1]
    IN  IF x.basis
        THEN [st EXCEPT !.q[q + 1] = Phase(x.v * Pow2(p))]
        ELSE IF x.v = 0 THEN [st EXCEPT !.q[q + 1] = Basis(0)]
        ELSE IF x.v = Pow2(p) THEN [st EXCEPT !.q[q + 1] = Basis(1)]
        ELSE NotOk(st)

\* the controlled unitary: its control picks up the eigenvalue
\* e^(2 pi i m / 2^p), that is 2m units (phase kickback)
ApplyCU(st, qubits, p, m) ==
    LET c == qubits[1]
    IN  IF c >= p \/ \E n \in 2..Len(qubits) : qubits[n] < p THEN NotOk(st)
        ELSE IF st.q[c + 1].basis THEN st
        ELSE [st EXCEPT !.q[c + 1] = Phase((@.v + 2 * m) % PhaseUnits(p))]

\* CU1(sign * pi / 2^exp): multiplies |11> by e^(i theta); sign * 2^(p - exp) units
ApplyCU1(st, a, b, sign, exp, p) ==
    LET x == st.q[a + 1]
        y == st.q[b + 1]
        u == sign * Pow2(p - exp)
    IN  IF exp > p THEN NotOk(st)
        ELSE IF x.basis /\ y.basis THEN st
        ELSE IF x.basis
             THEN [st EXCEPT !.q[b + 1] = Phase((@.v + x.v * u) % PhaseUnits(p))]
        ELSE IF y.basis
             THEN [st EXCEPT !.q[a + 1] = Phase((@.v + y.v * u) % PhaseUnits(p))]
        ELSE NotOk(st)

ApplySwap(st, a, b) ==
    [st EXCEPT !.q[a + 1] = st.q[b + 1], !.q[b + 1] = st.q[a + 1]]

RECURSIVE RunPhase(_, _, _, _)
RunPhase(defn, st, p, m) ==
    IF defn = <<>> \/ ~st.ok THEN st
    ELSE LET ins == Head(defn)
             t   == CASE ins.name = "h" -> ApplyH(st, ins.qubits[1], p)
                      [] ins.name = "cU" -> ApplyCU(st, ins.qubits, p, m)
                      [] ins.name = "cu1" ->
                           ApplyCU1(st, ins.qubits[1], ins.qubits[2],
                                    ins.params.sign, ins.params.exp, p)
                      [] ins.name = "swap" ->
                           ApplySwap(st, ins.qubits[1], ins.qubits[2])
                      [] ins.name = "QFTGate_dg" ->
                           RunPhase(Remap(InverseDefinition(
                                        QFT_define(QFTGate(ins.num_qubits,
                                                           ins.params.do_swaps))),
                                          ins.qubits),
                                    st, p, m)
         IN  RunPhase(Tail(defn), t, p, m)

(***************************************************************************)
(* The caller.                                                             *)
(***************************************************************************)
NoGate == Gate("none", 0, NoParams)

\* the vector lengths tried: every power of two up to 2^MaxCtrl and the
\* lengths around them, 0 included
MaxLen == Pow2(MaxCtrl) + 3

\* the exponents k of the lengths 2^k handed to get_num_qubits directly:
\* the small ones, and the first ones beyond the precision of a double.
\* (Between them, from about 2^48 on, the result depends on how np.log2
\* rounds its last bit; those lengths are not drawn.)
Exponents == (0..MaxExp) \cup (MantissaBits..(MantissaBits + 1))

Init ==
    /\ pc = "idle"
    /\ args = <<>>
    /\ gate = NoGate
    /\ definition = <<>>
    /\ error = "none"
    /\ input = <<>>
    /\ output = <<>>

\* get_num_qubits(2^k)
CallGetNumQubits ==
    /\ pc = "idle"
    /\ \E k \in Exponents :
          /\ args' = [exp |-> k]
          /\ output' = get_num_qubits(Pow2Bits(k))
    /\ pc' = "returned"
    /\ UNCHANGED <<gate, definition, error, input>>

\* CustomMCXGate(k, qubit_values)
NewCustomMCX ==
    /\ pc = "idle"
    /\ \E k \in 0..MaxCtrl :
       \E qv \in {NoneValues} \cup {Values(v) : v \in BitVectors(k)} :
          /\ args' = [num_ctrl_qubits |-> k, qubit_values |-> qv]
          /\ gate' = CustomMCXGate(k, qv)
    /\ pc' = "constructed"
    /\ UNCHANGED <<definition, error, input, output>>

\* BooleanOracleGate(boolean_vector)
NewBooleanOracle ==
    /\ pc = "idle"
    /\ \E n \in 0..MaxLen : \E bv \in BitVectors(n) :
          LET e == BooleanOracle_error(NatToBits(Len(bv))) IN
          /\ args' = [boolean_vector |-> bv]
          /\ error' = e
          /\ IF e = "none"
             THEN gate' = BooleanOracleGate(bv) /\ pc' = "constructed"
             ELSE gate' = gate /\ pc' = "failed"
    /\ UNCHANGED <<definition, input, output>>

\* QFTGate(n, do_swaps=...)
NewQFT ==
    /\ pc = "idle"
    /\ \E n \in 0..MaxQFT : \E do_swaps \in BOOLEAN :
          /\ args' = [num_qubits |-> n, do_swaps |-> do_swaps]
          /\ gate' = QFTGate(n, do_swaps)
    /\ pc' = "constructed"
    /\ UNCHANGED <<definition, error, input, output>>

\* lists of distinct qubit indices below n
QubitLists(n) ==
    {q \in UNION {[1..l -> 0..(n - 1)] : l \in 0..n} :
        \A a, b \in 1..Len(q) : a # b => q[a] # q[b]}

\* GroverDiffusionGate(n, A, classical_boolean_oracle, oracle_qubits): A is a
\* gate on n qubits; the marking vector has one entry per assignment of the
\* oracle qubits, or a length BooleanOracleGate rejects
NewGrover ==
    /\ pc = "idle"
    /\ \E n \in 0..MaxGrover : \E oq \in QubitLists(n) :
       \E l \in 0..(Pow2(Len(oq)) + 1) : \E bv \in BitVectors(l) :
          /\ l = Pow2(Len(oq)) \/ BooleanOracle_error(NatToBits(l)) # "none"
          /\ args' = [num_qubits |-> n, classical_boolean_oracle |-> bv,
                      oracle_qubits |-> oq]
          /\ gate' = GroverDiffusionGate(n, Gate("A", n, NoParams), bv, oq)
    /\ pc' = "constructed"
    /\ UNCHANGED <<definition, error, input, output>>

\* QPEGate(p, U): U is a gate on u qubits
NewQPE ==
    /\ pc = "idle"
    /\ \E p \in 0..MaxPhase : \E u \in 1..MaxUnitary :
          /\ args' = [num_phase_qubits |-> p, unitary_qubits |-> u]
          /\ gate' = QPEGate(p, Gate("U", u, NoParams))
    /\ pc' = "constructed"
    /\ UNCHANGED <<definition, error, input, output>>

\* the exception _define raises, "none" if none
DefineError(g) ==
    IF g.name = "GroverDiffusionGate" THEN Grover_error(g) ELSE "none"

DefinitionOf(g) ==
    CASE g.name = "CustomMCX" -> CustomMCX_define(g)
      [] g.name = "BooleanOracleGate" -> BooleanOracle_define(g)
      [] g.name = "QFTGate" -> QFT_define(g)
      [] g.name = "GroverDiffusionGate" -> Grover_define(g)
      [] g.name = "QPE" -> QPE_define(g)

\* gate.definition: _define of the gate's class runs, and either assigns
\* self.definition or raises
Define ==
    /\ pc = "constructed"
    /\ error' = DefineError(gate)
    /\ IF DefineError(gate) = "none"
       THEN definition' = DefinitionOf(gate) /\ pc' = "defined"
       ELSE definition' = definition /\ pc' = "failed"
    /\ UNCHANGED <<args, gate, input, output>>

\* the definition of a QPEGate applied to phase qubits all 0 and an
\* eigenstate of the unitary with eigenphase m / 2^p
RunEigen ==
    /\ pc = "defined"
    /\ gate.name = "QPE"
    /\ LET p == gate.params.num_phase_qubits IN
       \E m \in 0..(Pow2(p) - 1) :
          /\ input' = m
          /\ output' = RunPhase(definition,
                                [ok |-> TRUE, q |-> [n \in 1..p |-> Basis(0)]], p, m)
    /\ pc' = "ran"
    /\ UNCHANGED <<args, gate, definition, error>>

\* the definition applied to a computational-basis state
Run ==
    /\ pc = "defined"
    /\ gate.name \in {"CustomMCX", "BooleanOracleGate"}
    /\ \E s \in BitVectors(gate.num_qubits) :
          /\ input' = s
          /\ output' = RunBasis(definition, s)
    /\ pc' = "ran"
    /\ UNCHANGED <<args, gate, definition, error>>

Next ==
    \/ CallGetNumQubits
    \/ NewCustomMCX
    \/ NewBooleanOracle
    \/ NewQFT
    \/ NewGrover
    \/ NewQPE
    \/ Define
    \/ Run
    \/ RunEigen

Spec == Init /\ [][Next]_vars

(***************************************************************************)
(* Properties.                                                             *)
(***************************************************************************)
Xor(a, b) == (a + b) % 2

\* the integer a register of bits encodes, qubit 0 least significant
RECURSIVE Encoded(_)
Encoded(bits) == IF bits = <<>> THEN 0 ELSE Head(bits) + 2 * Encoded(Tail(bits))

\* C1: the definition of CustomMCXGate(k, v), run on the basis state
\* (c_0..c_{k-1}, t), gives (c_0..c_{k-1}, t XOR m) with m = 1 iff every
\* control c_j equals v_j (v = None counting as all ones): the target is
\* flipped iff the controls match the pattern and the controls are restored.
C1_FlipsIffPatternMatches ==
    (pc = "ran" /\ gate.name = "CustomMCX") =>
        LET k  == args.num_ctrl_qubits
            qv == args.qubit_values
            v  == IF qv.none THEN [j \in 1..k |-> 1] ELSE qv.vals
            m  == IF \A j \in 1..k : input[j] = v[j] THEN 1 ELSE 0
        IN  output = [input EXCEPT ![k + 1] = Xor(@, m)]

C1_Witness ==
    /\ pc = "ran" /\ gate.name = "CustomMCX"
    /\ args.num_ctrl_qubits >= 2
    /\ ~args.qubit_values.none
    /\ \E j \in 1..args.num_ctrl_qubits : args.qubit_values.vals[j] = 0
    /\ \E j \in 1..args.num_ctrl_qubits : args.qubit_values.vals[j] = 1
    /\ output # input

\* C2: the definition of BooleanOracleGate(b), run on the basis state whose
\* input qubits encode i (qubit 0 least significant) and whose output qubit
\* holds t, leaves the input qubits encoding i and the output qubit at
\* t XOR b[i].
C2_OracleComputesTruthTable ==
    (pc = "ran" /\ gate.name = "BooleanOracleGate") =>
        LET k == gate.params.num_ctrl_qubits
            b == args.boolean_vector
            i == Encoded(SubSeq(input, 1, k))
        IN  /\ Len(b) = Pow2(k)
            /\ output = [input EXCEPT ![k + 1] = Xor(@, b[i + 1])]

C2_Witness ==
    /\ pc = "ran" /\ gate.name = "BooleanOracleGate"
    /\ gate.params.num_ctrl_qubits >= 2
    /\ Cardinality({n \in 1..Len(args.boolean_vector) : args.boolean_vector[n] = 1}) >= 2
    /\ Encoded(SubSeq(input, 1, 2)) = 1
    /\ input[Len(input)] = 0
    /\ output[Len(output)] = 1

\* C3: constructing BooleanOracleGate with a vector whose length is not a
\* power of two always fails with the size-mismatch error, and no gate is
\* constructed.
C3_NonPowerOfTwoIsSizeMismatch ==
    (pc # "idle" /\ "boolean_vector" \in DOMAIN args
       /\ ~IsPow2Bits(NatToBits(Len(args.boolean_vector)))) =>
        (pc = "failed" /\ error = "size_mismatch" /\ gate = NoGate)

\* C7: get_num_qubits(2^k) returns k for every k >= 0, so a vector of length
\* 2^k passes the length check of BooleanOracleGate, which gets
\* num_ctrl_qubits = k.
C7_PowerOfTwoGivesExponent ==
    (pc = "returned") =>
        /\ output = [raised |-> FALSE, value |-> args.exp]
        /\ BooleanOracle_error(Pow2Bits(args.exp)) = "none"

\* C5: QPEGate(p, U), p >= 1, applied to phase qubits all 0 and an
\* eigenstate of U with eigenphase m / 2^p leaves the phase register, with
\* certainty, in the basis state in which phase qubit j holds bit j of m.
C5_PhaseRegisterHoldsEigenphase ==
    (pc = "ran" /\ gate.name = "QPE" /\ args.num_phase_qubits >= 1) =>
        /\ output.ok
        /\ \A j \in 0..(args.num_phase_qubits - 1) :
              output.q[j + 1] = Basis((input \div Pow2(j)) % 2)

C5_Witness ==
    /\ pc = "ran" /\ gate.name = "QPE"
    /\ args.num_phase_qubits >= 3
    /\ input = 5
    /\ output.ok
    /\ output.q[1] = Basis(1) /\ output.q[2] = Basis(0) /\ output.q[3] = Basis(1)

\* C6: the definition of GroverDiffusionGate is exactly the eight steps
\* H(aux), Z(aux), the marking oracle on (oracle_qubits, aux), the inverse
\* algorithm on the non-auxiliary qubits, the inversion oracle on the whole
\* register, the algorithm on the non-auxiliary qubits, Z(aux), H(aux); aux
\* is the last qubit and the algorithm and its inverse never act on it.
C6_GroverEightSteps ==
    (pc = "defined" /\ gate.name = "GroverDiffusionGate") =>
        LET n    == args.num_qubits
            aux  == gate.num_qubits - 1
            rest == [j \in 1..n |-> j - 1]
            d    == definition
        IN  /\ Len(d) = 8
            /\ aux = n
            /\ d[1].name = "h" /\ d[1].qubits = <<aux>>
            /\ d[2].name = "z" /\ d[2].qubits = <<aux>>
            /\ d[3].name = "BooleanOracleGate"
            /\ d[3].params.boolean_vector = args.classical_boolean_oracle
            /\ d[3].qubits = args.oracle_qubits \o <<aux>>
            /\ d[4].name = "A_dg" /\ d[4].qubits = rest
            /\ d[5].name = "BooleanOracleGate" /\ d[5].qubits = rest \o <<aux>>
            /\ d[6].name = "A" /\ d[6].qubits = rest
            /\ d[7].name = "z" /\ d[7].qubits = <<aux>>
            /\ d[8].name = "h" /\ d[8].qubits = <<aux>>
            /\ \A s \in {4, 6} : \A j \in 1..Len(d[s].qubits) : d[s].qubits[j] # aux

C6_Witness ==
    /\ pc = "defined" /\ gate.name = "GroverDiffusionGate"
    /\ args.num_qubits >= 2
    /\ args.oracle_qubits = <<1, 0>>
    /\ Len(definition) = 8

\* position in the definition of QFTGate(n) of the Hadamard on qubit i, when
\* the qubits are processed from n-1 down to 0 and qubit t takes 1 + t gates
QFT_HPos(n, i) == 1 + (n * (n + 1) - (i + 1) * (i + 2)) \div 2

\* qubits are processed from n-1 down to 0; the round of qubit i is a
\* Hadamard on i, then exactly one rotation of angle pi / 2^(i-j) between j
\* and i for each j < i; the swaps, if any, come last
QFT_Rounds(d, n, do_swaps) ==
    /\ Len(d) = (n * (n + 1)) \div 2 + (IF do_swaps THEN n \div 2 ELSE 0)
    /\ \A q \in 1..Len(d) : d[q].name = "swap" <=> q > (n * (n + 1)) \div 2
    /\ \A i \in 0..(n - 1) :
          LET h == QFT_HPos(n, i) IN
          /\ d[h].name = "h" /\ d[h].qubits = <<i>>
          /\ \A q \in (h + 1)..(h + i) : d[q].name = "cu1"
          /\ \A j \in 0..(i - 1) :
                Cardinality({q \in (h + 1)..(h + i) :
                                /\ {d[q].qubits[1], d[q].qubits[2]} = {j, i}
                                /\ d[q].params = [sign |-> 1, exp |-> i - j]}) = 1

\* the lower-index qubit of the rotation at position q
LowerQubit(d, q) ==
    IF d[q].qubits[1] < d[q].qubits[2] THEN d[q].qubits[1] ELSE d[q].qubits[2]

HadamardPositions(d, j) ==
    {q \in 1..Len(d) : d[q].name = "h" /\ d[q].qubits = <<j>>}

\* C8 as stated: the rounds of QFTGate(n)._define are as above, and the
\* lower-index qubit j of every rotation has already received its own
\* Hadamard when the rotation is appended.
C8_LowerQubitAlreadyProcessed ==
    (pc = "defined" /\ gate.name = "QFTGate") =>
        /\ QFT_Rounds(definition, args.num_qubits, args.do_swaps)
        /\ \A q \in 1..Len(definition) :
              definition[q].name = "cu1" =>
                 \E h \in HadamardPositions(definition, LowerQubit(definition, q)) : h < q

\* C8, amended: the rounds of QFTGate(n)._define are as above, and the
\* lower-index qubit j of every rotation has not yet been processed when the
\* rotation is appended: its one Hadamard comes later in the sequence.
C8_LowerQubitProcessedLater ==
    (pc = "defined" /\ gate.name = "QFTGate") =>
        /\ QFT_Rounds(definition, args.num_qubits, args.do_swaps)
        /\ \A q \in 1..Len(definition) :
              definition[q].name = "cu1" =>
                 LET hs == HadamardPositions(definition, LowerQubit(definition, q))
                 IN  Cardinality(hs) = 1 /\ \A h \in hs : h > q

C8_Witness ==
    /\ pc = "defined" /\ gate.name = "QFTGate"
    /\ args.num_qubits >= 3
    /\ args.do_swaps
    /\ \E q \in 1..Len(definition) :
          definition[q].name = "cu1" /\ definition[q].params.exp = 2

\* C9: the definition of QPEGate(p, U) holds, for each phase qubit i in
\* increasing order, one Hadamard on i immediately followed by exactly 2^i
\* singly-controlled unitaries with control i and targets exactly the state
\* qubits p, p+1, ... (2^p - 1 in total); its last element is the inverse
\* QFT on the qubits 0..p-1.
C9_QPEStructure ==
    (pc = "defined" /\ gate.name = "QPE") =>
        LET p     == args.num_phase_qubits
            u     == args.unitary_qubits
            d     == definition
            state == [j \in 1..u |-> p + j - 1]
        IN  /\ Len(d) = p + (Pow2(p) - 1) + 1
            /\ \A i \in 0..(p - 1) :
                  LET h == i + Pow2(i) IN
                  /\ d[h].name = "h" /\ d[h].qubits = <<i>>
                  /\ \A q \in (h + 1)..(h + Pow2(i)) :
                        /\ d[q].name = "cU"
                        /\ d[q].num_qubits = u + 1
                        /\ d[q].qubits = <<i>> \o state
            /\ Cardinality({q \in 1..Len(d) : d[q].name = "cU"}) = Pow2(p) - 1
            /\ d[Len(d)].name = "QFTGate_dg"
            /\ d[Len(d)].num_qubits = p
            /\ d[Len(d)].qubits = [j \in 1..p |-> j - 1]

C9_Witness ==
    /\ pc = "defined" /\ gate.name = "QPE"
    /\ args.num_phase_qubits >= 3
    /\ args.unitary_qubits >= 2
    /\ Len(definition) = 11

\* C10: for GroverDiffusionGate(n, ...), the inversion-about-the-mean step is
\* a BooleanOracleGate of a truth table of length 2^n true only at index 0;
\* constructing it never raises; it has n + 1 qubits, the size of the
\* register it is applied to; on basis states it flips the auxiliary qubit
\* iff all n other qubits are 0.
C10_InversionOracle ==
    (gate.name = "GroverDiffusionGate") =>
        LET n == args.num_qubits
            v == InversionVector(gate)
        IN  /\ Len(v) = Pow2(n)
            /\ \A x \in 1..Len(v) : v[x] = 1 <=> x = 1
            /\ BooleanOracle_error(NatToBits(Len(v))) = "none"
            /\ error # "none" => error = BooleanOracle_error(
                                    NatToBits(Len(args.classical_boolean_oracle)))
            /\ pc = "defined" =>
                 LET step == definition[5] IN
                 /\ step.name = "BooleanOracleGate"
                 /\ step.params.boolean_vector = v
                 /\ step.num_qubits = n + 1
                 /\ step.num_qubits = gate.num_qubits
                 /\ step.qubits = QuantumRegister(gate.num_qubits)
                 /\ \A s \in BitVectors(n + 1) :
                       RunBasis(<<step>>, s) =
                          [s EXCEPT ![n + 1] =
                              Xor(@, IF \A j \in 1..n : s[j] = 0 THEN 1 ELSE 0)]

C10_Witness ==
    /\ pc = "defined" /\ gate.name = "GroverDiffusionGate"
    /\ args.num_qubits >= 2
    /\ definition[5].params.boolean_vector = <<1, 0, 0, 0>>
    /\ RunBasis(<<definition[5]>>, <<0, 0, 0>>) = <<0, 0, 1>>
    /\ RunBasis(<<definition[5]>>, <<0, 1, 0>>) = <<0, 1, 0>>

=============================================================================
